---- MODULE Spec2Model ----
(***************************************************************************)
(* LocalClient of qiskit_serverless (core/clients/LocalClient.py): the     *)
(* in-memory function registry (_patterns), the job table (_jobs), and     *)
(* the operations upload / run / get_job / get_jobs / status / result /    *)
(* logs / stop / filtered_logs / get_programs / get_program / file ops.    *)
(*                                                                         *)
(* Text is modelled as a sequence of tokens.  A token is one character     *)
(* that is not a line break ("a", "b", "/"), the line break "\n", or one   *)
(* of the literals the code matches as a unit ("Saved Result:",            *)
(* ":End Saved Result", both free of line breaks).                         *)
(* A Python value that may be None is [some |-> BOOLEAN, v |-> value].     *)
(* A Python dict is a sequence of <<key, value>> pairs in insertion order  *)
(* (_jobs, the title map of get_program) or, where order is never read     *)
(* (environment variables), a set of <<key, value>> pairs.                 *)
(***************************************************************************)
EXTENDS Integers, Sequences, FiniteSets, TLC

VARIABLES
    _jobs,      \* self._jobs: ordered dict job_id -> entry
    _patterns,  \* self._patterns: list of registered function records
    in_test,    \* self.in_test: os.getenv("IN_TEST")
    call,       \* the operation called last and its arguments
    ret,        \* what that call returned or raised
    calls,      \* the external processes that call started, in order
    runLog,     \* history: what each completed run() returned and recorded
    pre         \* history: _jobs and _patterns as that call found them

vars == <<_jobs, _patterns, in_test, call, ret, calls, runLog, pre>>

Snapshot == [jobs |-> _jobs, patterns |-> _patterns]

\* ------------------------------------------------------------------ bounds

MaxJobs == 2
MaxPatterns == 2
MaxOut == 7

\* ------------------------------------------------------------ python values

NoneStr == [some |-> FALSE, v |-> ""]
NoneList == [some |-> FALSE, v |-> <<>>]
NoneDict == [some |-> FALSE, v |-> {}]
Some(x) == [some |-> TRUE, v |-> x]

\* `x or default`: None and the empty value are both falsy.
OrElse(x, empty) == IF x.some /\ x.v # empty THEN x.v ELSE empty

\* bool(s) of a str, a list or a return code kept as text/number.
Truthy(s) == Len(s) > 0

Last(s) == s[Len(s)]

\* {**a, **b}: b's value wins on a key collision.
DictMerge(a, b) == {p \in a : ~\E q \in b : q[1] = p[1]} \cup b

DictKeys(d) == {d[i][1] : i \in 1..Len(d)}

\* d[k] = v on an insertion-ordered dict: an existing key keeps its place.
DictSet(d, k, v) ==
    IF k \in DictKeys(d)
    THEN [i \in 1..Len(d) |-> IF d[i][1] = k THEN <<k, v>> ELSE d[i]]
    ELSE Append(d, <<k, v>>)

\* d[k] for a key that is present.
DictGet(d, k) == d[CHOOSE i \in 1..Len(d) : d[i][1] = k][2]

\* ----------------------------------------------------------------- json

RECURSIVE JsonItems(_)
JsonItems(l) ==
    IF l = <<>> THEN <<>>
    ELSE IF Len(l) = 1 THEN l
    ELSE <<Head(l), ",">> \o JsonItems(Tail(l))

\* json.dumps of a list of strings: [ item , item ... ]
JsonDumps(l) == <<"[">> \o JsonItems(l) \o <<"]">>

\* json.loads of such a text: the items between the brackets.
JsonLoads(s) ==
    LET inner == SubSeq(s, 2, Len(s) - 1)
    IN  SelectSeq(inner, LAMBDA t : t # ",")

\* ----------------------------------------------------------------- paths

\* os.path.join(a, b) for two components.
OsPathJoin(a, b) ==
    IF b # <<>> /\ Head(b) = "/" THEN b
    ELSE IF a = <<>> \/ Last(a) = "/" THEN a \o b
    ELSE a \o <<"/">> \o b

\* The files of the file system the client runs on.
ExistingFiles == { <<"d1", "/", "main.py">>, <<"d2", "/", "main.py">> }

OsPathExists(path) == path \in ExistingFiles

\* ---------------------------------------------------------------- inputs

Function(t, prov, wd, ep, env, deps) ==
    [title |-> t, provider |-> prov, working_dir |-> wd, entrypoint |-> ep,
     env_vars |-> env, dependencies |-> deps]

FnA == Function("f", NoneStr, <<"d1", "/">>, <<"main.py">>, NoneDict,
                Some(<<"p", "q">>))
FnB == Function("f", Some("ibm"), <<"d2", "/">>, <<"main.py">>,
                Some({<<"K", <<"v">>>>, <<"PATH", <<"m">>>>}), NoneList)
FnC == Function("g", NoneStr, <<"d1">>, <<"main.py">>, Some({}),
                Some(<<"q">>))
FnNoFile == Function("g", NoneStr, <<"d2", "/">>, <<"gone.py">>, NoneDict,
                     Some(<<>>))
FnNoDir == Function("f", NoneStr, <<"d3", "/">>, <<"main.py">>, NoneDict,
                    NoneList)

Programs == {FnA, FnB, FnC, FnNoFile, FnNoDir}
Titles == {"f", "g"}
Providers == {NoneStr, Some("ibm")}
UUIDs == {"u1", "u2", "u3"}
ExitCodes == {0, 1, -9}
Arguments == {NoneList, Some(<< <<"x", "1">> >>)}
InTestValues == {NoneStr, Some("1")}

\* ------------------------------------------------------------- operations

Init ==
    /\ _jobs = <<>>
    /\ _patterns = <<>>
    /\ in_test \in InTestValues
    /\ call = [op |-> "__init__"]
    /\ ret = [exc |-> "", val |-> NoneStr]
    /\ calls = <<>>
    /\ runLog = <<>>
    /\ pre = Snapshot

Returns(v) == [exc |-> "", val |-> v]
Raises(e) == [exc |-> e, val |-> NoneStr]

Pattern(program) ==
    [title |-> program.title,
     provider |-> program.provider,
     entrypoint |-> program.entrypoint,
     working_dir |-> program.working_dir,
     env_vars |-> program.env_vars,
     arguments |-> <<"{", "}">>,
     dependencies |-> JsonDumps(OrElse(program.dependencies, <<>>))]

\* An upload that registers without looking for the entrypoint file.
upload_unchecked(program) ==
    /\ call' = [op |-> "upload", program |-> program]
    /\ pre' = Snapshot
    /\ calls' = <<>>
    /\ Len(_patterns) < MaxPatterns
    /\ _patterns' = Append(_patterns, Pattern(program))
    /\ ret' = Returns(program.title)
    /\ UNCHANGED <<_jobs, in_test, runLog>>

upload(program) ==
    /\ call' = [op |-> "upload", program |-> program]
    /\ pre' = Snapshot
    /\ calls' = <<>>
    /\ IF ~OsPathExists(OsPathJoin(program.working_dir, program.entrypoint))
       THEN /\ ret' = Raises("QiskitServerlessException")
            /\ UNCHANGED _patterns
       ELSE /\ Len(_patterns) < MaxPatterns
            /\ _patterns' = Append(_patterns, Pattern(program))
            /\ ret' = Returns(program.title)
    /\ UNCHANGED <<_jobs, in_test, runLog>>

\* ------------------------------------------------------------------ run

NL == "\n"
SavedResult == "Saved Result:"
EndSavedResult == ":End Saved Result"

\* The tail of the pattern at index j: ":End Saved Result" then "\n".
MatchTail(output, j) ==
    /\ j + 1 <= Len(output)
    /\ output[j] = EndSavedResult
    /\ output[j + 1] = NL

\* (.+?) after at least one token was taken: stop at the first index where
\* the tail matches, else take one more token that is not a line break.
\* The index of the tail, or 0 when the attempt fails.
RECURSIVE LazyDot(_, _)
LazyDot(output, j) ==
    IF MatchTail(output, j) THEN j
    ELSE IF j <= Len(output) /\ output[j] # NL THEN LazyDot(output, j + 1)
    ELSE 0

\* The pattern without its leading line break: "Saved Result:(.+?)..."
MatchAtNoLineBreak(output, i) ==
    IF /\ i + 2 <= Len(output)
       /\ output[i + 1] = SavedResult
       /\ output[i + 2] # NL
    THEN LazyDot(output, i + 3)
    ELSE 0

\* An attempt to match the whole pattern starting at index i.
MatchAt(output, i) ==
    IF /\ i + 2 <= Len(output)
       /\ output[i] = NL
       /\ output[i + 1] = SavedResult
       /\ output[i + 2] # NL
    THEN LazyDot(output, i + 3)
    ELSE 0

\* re.search scans the start positions left to right; group(1) of the first
\* attempt that succeeds, or None.
RECURSIVE SearchFrom(_, _)
SearchFrom(output, i) ==
    IF i > Len(output) THEN NoneList
    ELSE IF MatchAt(output, i) # 0
         THEN Some(SubSeq(output, i + 2, MatchAt(output, i) - 1))
         ELSE SearchFrom(output, i + 1)

ReSearch(output) == SearchFrom(output, 1)

\* result = ""; if results: result = results.group(1)
ExtractResult(output) ==
    IF ReSearch(output).some THEN ReSearch(output).v ELSE <<>>

\* A status that takes only a positive exit code for a failure.
StatusOfPositive(returncode) ==
    IF returncode > 0 THEN "FAILED" ELSE "SUCCEEDED"

\* status = "SUCCEEDED"; if pipe.wait(): status = "FAILED"
StatusOf(returncode) == IF returncode # 0 THEN "FAILED" ELSE "SUCCEEDED"

AsFunction(program) == [isFunction |-> TRUE, title |-> program.title]
AsTitle(t) == [isFunction |-> FALSE, title |-> t]

\* title = program.title if isinstance(program, QiskitFunction) else str(program)
ResolveTitle(program) == program.title

Unbound == [some |-> FALSE, v |-> <<>>]

\* The loop with a break at the first match.
RECURSIVE ForPatternsFirst(_, _, _)
ForPatternsFirst(ps, title, saved_program) ==
    IF ps = <<>> THEN saved_program
    ELSE IF Head(ps).title = title THEN Some(Head(ps))
    ELSE ForPatternsFirst(Tail(ps), title, saved_program)

\* for pattern in self._patterns:
\*     if pattern["title"] == title: saved_program = pattern
RECURSIVE ForPatterns(_, _, _)
ForPatterns(ps, title, saved_program) ==
    IF ps = <<>> THEN saved_program
    ELSE ForPatterns(Tail(ps), title,
                     IF Head(ps).title = title THEN Some(Head(ps))
                     ELSE saved_program)

\* A loop variable that starts as the record registered last.
SavedProgramDefault(title) ==
    ForPatterns(_patterns, title,
                IF _patterns = <<>> THEN Unbound ELSE Some(Last(_patterns)))

SavedProgram(title) == ForPatterns(_patterns, title, Unbound)

\* The dependencies walked from the last to the first.
DeptReversed(saved_program) ==
    LET l == JsonLoads(saved_program.dependencies)
    IN  [i \in 1..Len(l) |-> l[Len(l) + 1 - i]]

\* dept = json.loads(saved_program["dependencies"]) when the text is truthy
Dept(saved_program) ==
    IF Truthy(saved_program.dependencies)
    THEN JsonLoads(saved_program.dependencies)
    ELSE <<>>

\* One external process: what was started, and the code it exited with.
PipInstall(dependency, returncode) ==
    [cmd |-> "pip install", target |-> <<dependency>>, env |-> {},
     returncode |-> returncode]

Popen(path, env, returncode) ==
    [cmd |-> "python", target |-> path, env |-> env,
     returncode |-> returncode]

\* json.dumps of the arguments dict (insertion-ordered pairs of texts).
RECURSIVE JsonPairs(_)
JsonPairs(d) ==
    IF d = <<>> THEN <<>>
    ELSE (IF Len(d) = 1 THEN <<d[1][1], ":", d[1][2]>>
          ELSE <<d[1][1], ":", d[1][2], ",">>) \o JsonPairs(Tail(d))

JsonDumpsDict(d) == <<"{">> \o JsonPairs(d) \o <<"}">>

OsEnvironPath == <<"/", "b", "i", "n">>

EnvVars(saved_program, arguments) ==
    DictMerge(
      DictMerge(
        DictMerge(OrElse(saved_program.env_vars, {}),
                  {<<"OT_PROGRAM_NAME", <<saved_program.title>>>>}),
        {<<"PATH", OsEnvironPath>>}),
      {<<"ENV_JOB_ARGUMENTS", JsonDumpsDict(OrElse(arguments, <<>>))>>})

\* An identifier source that may hand out a value again.
Uuid4Repeating == UUIDs

\* The values str(uuid4()) can take: a random 122-bit value, taken never to
\* repeat one handed out before.
Uuid4 == UUIDs \ DictKeys(_jobs)

\* Job(job_id=..., client=self): the value of its constructor arguments.
Job(job_id) == [job_id |-> job_id, client |-> "local-client"]

Entry(status, output, result, job) ==
    [status |-> status, logs |-> output, result |-> result, job |-> job]

\* self._jobs = {job.job_id: entry}: the table replaced, not extended.
StoreJobOnly(job_id, entry) == <<<<job_id, entry>>>>

\* self._jobs[job.job_id] = entry
StoreJob(job_id, entry) == DictSet(_jobs, job_id, entry)

run(program, arguments, Outs, Codes) ==
    /\ call' = [op |-> "run", program |-> program, arguments |-> arguments]
    /\ pre' = Snapshot
    /\ LET saved == SavedProgram(ResolveTitle(program))
       IN  IF ~saved.some
           THEN /\ ret' = Raises("UnboundLocalError")
                /\ calls' = <<>>
                /\ UNCHANGED <<_jobs, runLog>>
           ELSE \E failed \in 0..Len(Dept(saved.v)) :
                  IF failed # 0
                  THEN \* check_call of dependency number `failed` raises
                       /\ calls' = [i \in 1..failed |->
                                      PipInstall(Dept(saved.v)[i],
                                          IF i = failed THEN 1 ELSE 0)]
                       /\ ret' = Raises("CalledProcessError")
                       /\ UNCHANGED <<_jobs, runLog>>
                  ELSE \E returncode \in Codes, output \in Outs,
                          job_id \in Uuid4 :
                         LET job == Job(job_id)
                             entry == Entry(StatusOf(returncode), output,
                                            ExtractResult(output), job)
                         IN  /\ Len(_jobs) < MaxJobs
                             /\ calls' =
                                  [i \in 1..Len(Dept(saved.v)) |->
                                      PipInstall(Dept(saved.v)[i], 0)]
                                  \o <<Popen(saved.v.working_dir
                                             \o saved.v.entrypoint,
                                             EnvVars(saved.v, arguments),
                                             returncode)>>
                             /\ _jobs' = StoreJob(job_id, entry)
                             /\ ret' = Returns(job)
                             /\ runLog' = Append(runLog,
                                    [job |-> job,
                                     status |-> entry.status,
                                     logs |-> entry.logs,
                                     result |-> entry.result])
    /\ UNCHANGED <<_patterns, in_test>>

\* ------------------------------------------------------------ job queries

\* self._jobs.get(job_id): None for an absent key.
JobFieldGet(job_id, field) ==
    IF job_id \in DictKeys(_jobs)
    THEN Returns(DictGet(_jobs, job_id)[field])
    ELSE Returns(NoneStr)

\* self._jobs[job_id][field]: KeyError for an absent key.
JobField(job_id, field) ==
    IF job_id \in DictKeys(_jobs)
    THEN Returns(DictGet(_jobs, job_id)[field])
    ELSE Raises("KeyError")

Query(c, r) ==
    /\ call' = c
    /\ ret' = r
    /\ calls' = <<>>
    /\ pre' = Snapshot
    /\ UNCHANGED <<_jobs, _patterns, in_test, runLog>>

get_job(job_id) ==
    Query([op |-> "get_job", job_id |-> job_id], JobField(job_id, "job"))

\* [job["job"] for job in list(self._jobs.values())]
JobsList == [i \in 1..Len(_jobs) |-> _jobs[i][2].job]

get_jobs(kwargs) ==
    Query([op |-> "get_jobs", kwargs |-> kwargs], Returns(JobsList))

status(job_id) ==
    Query([op |-> "status", job_id |-> job_id], JobField(job_id, "status"))

StopMessage(job_id) == <<"job:", job_id, " has already stopped">>

stop(job_id) ==
    Query([op |-> "stop", job_id |-> job_id], Returns(StopMessage(job_id)))

result(job_id) ==
    Query([op |-> "result", job_id |-> job_id], JobField(job_id, "result"))

logs(job_id) ==
    Query([op |-> "logs", job_id |-> job_id], JobField(job_id, "logs"))

filtered_logs(job_id) ==
    Query([op |-> "filtered_logs", job_id |-> job_id],
          Raises("NotImplementedError"))

\* ------------------------------------------------------- function queries

\* QiskitFunction(title, provider=..., raw_data=program, client=self): the
\* handle is the value of its constructor arguments.
QiskitFunction(title, provider, raw_data) ==
    [title |-> title, provider |-> provider, raw_data |-> raw_data,
     client |-> "local-client"]

\* [QiskitFunction(...) for program in self._patterns]
ProgramsList ==
    [i \in 1..Len(_patterns) |->
        QiskitFunction(_patterns[i].title, _patterns[i].provider,
                       _patterns[i])]

get_programs(kwargs) ==
    Query([op |-> "get_programs", kwargs |-> kwargs], Returns(ProgramsList))

\* self.client.get_programs(): no file here sets the attribute `client`;
\* the receiver is taken to be this client, the one class that defines
\* get_programs, so the call yields the list get_programs() returns.
ClientGetPrograms == ProgramsList

\* A title map that keeps the first handle of a title (dict.setdefault).
RECURSIVE TitleMapFirst(_, _)
TitleMapFirst(fs, d) ==
    IF fs = <<>> THEN d
    ELSE TitleMapFirst(Tail(fs),
                       IF Head(fs).title \in DictKeys(d) THEN d
                       ELSE Append(d, <<Head(fs).title, Head(fs)>>))

\* {function.title: function for function in ...}: built left to right.
RECURSIVE TitleMap(_, _)
TitleMap(fs, d) ==
    IF fs = <<>> THEN d
    ELSE TitleMap(Tail(fs), DictSet(d, Head(fs).title, Head(fs)))

\* functions.get(title): the value, or None.
GetProgram(title) ==
    LET functions == TitleMap(ClientGetPrograms, <<>>)
    IN  IF title \in DictKeys(functions)
        THEN Some(DictGet(functions, title))
        ELSE Unbound

get_program(title, provider) ==
    Query([op |-> "get_program", title |-> title, provider |-> provider],
          Returns(GetProgram(title)))

\* ----------------------------------------------------------------- files

\* if self.in_test: warn and return the empty value; else raise.
FileOp(name, empty) ==
    Query([op |-> name],
          IF in_test.some /\ Truthy(in_test.v)
          THEN Returns(empty)
          ELSE Raises("NotImplementedError"))

files == FileOp("files", <<>>)
file_upload == FileOp("file_upload", NoneStr)
file_download == FileOp("file_download", NoneStr)
file_delete == FileOp("file_delete", NoneStr)

\* ------------------------------------------------------------------ specs

\* What the spawned script may print (stdout).
Outputs ==
    { <<"a", NL>>,
      <<NL, SavedResult, "a", EndSavedResult, NL>> }

RunArgs == {AsTitle(t) : t \in Titles} \cup {AsFunction(FnNoDir)}
Kwargs == {{}, {<<"limit", "1">>}}

\* One call of any operation, its inputs drawn from the given sets.
NextOver(Progs, RunProgs, Args, Outs, Codes) ==
    \/ \E program \in Progs : upload(program)
    \/ \E program \in RunProgs, arguments \in Args :
          run(program, arguments, Outs, Codes)
    \/ \E job_id \in UUIDs : get_job(job_id)
    \/ \E kwargs \in Kwargs : get_jobs(kwargs)
    \/ \E job_id \in UUIDs : status(job_id)
    \/ \E job_id \in UUIDs : stop(job_id)
    \/ \E job_id \in UUIDs : result(job_id)
    \/ \E job_id \in UUIDs : logs(job_id)
    \/ \E job_id \in UUIDs : filtered_logs(job_id)
    \/ \E kwargs \in Kwargs : get_programs(kwargs)
    \/ \E title \in Titles, provider \in Providers :
          get_program(title, provider)
    \/ files
    \/ file_upload
    \/ file_download
    \/ file_delete

\* Every operation with every input.
Next == NextOver(Programs, RunArgs, Arguments, Outputs, ExitCodes)

Spec == Init /\ [][Next]_vars

\* The registry in full: every function, run by title and by object, each
\* run printing the marker and exiting with 0.
NextFns ==
    NextOver(Programs, RunArgs, Arguments,
             {<<NL, SavedResult, "a", EndSavedResult, NL>>}, {0})

SpecFns == Init /\ [][NextFns]_vars

\* The job table in full: one function with dependencies, every exit code
\* and stdout text of Outputs.
NextJobs ==
    NextOver({FnA, FnNoFile}, {AsTitle(t) : t \in Titles}, {NoneList},
             Outputs, ExitCodes)

SpecJobs == Init /\ [][NextJobs]_vars

\* The result extraction in full: one function is registered and run once,
\* and the script prints any text of at most MaxOut tokens.
Tokens == {NL, SavedResult, EndSavedResult, "a"}
AllOutputs == UNION {[1..n -> Tokens] : n \in 0..MaxOut}

UploadOnce ==
    /\ _patterns = <<>>
    /\ upload(FnB)

RunOnce ==
    /\ _jobs = <<>>
    /\ run(AsTitle("f"), NoneList, AllOutputs, {0})

NextRe ==
    \/ UploadOnce
    \/ RunOnce

SpecRe == Init /\ [][NextRe]_vars

\* ----------------------------------------------------------------- claims

RunCompleted == call.op = "run" /\ ret.exc = ""

\* The record a completed run stored, read back through the job table.
StoredEntry(job_id) == DictGet(_jobs, job_id)

\* C1: upload(program) raises QiskitServerlessException and leaves the
\* registry as it was when the file working_dir/entrypoint does not exist;
\* when it exists the call returns the title, appends exactly one record,
\* and afterwards get_programs() holds a handle with that title and
\* get_program(title) is not None.
C1_Upload ==
    call.op = "upload" =>
        LET program == call.program
        IN  IF OsPathJoin(program.working_dir, program.entrypoint)
                 \notin ExistingFiles
            THEN /\ ret.exc = "QiskitServerlessException"
                 /\ _patterns = pre.patterns
            ELSE /\ ret = Returns(program.title)
                 /\ Len(_patterns) = Len(pre.patterns) + 1
                 /\ SubSeq(_patterns, 1, Len(pre.patterns)) = pre.patterns
                 /\ \E i \in 1..Len(ProgramsList) :
                        ProgramsList[i].title = program.title
                 /\ GetProgram(program.title).some

C1_Witness ==
    /\ call.op = "upload"
    /\ ret.exc = ""
    /\ Len(_patterns) = 2
    /\ _patterns[1].title # _patterns[2].title

\* C2: after a run() that reached the end of the subprocess the stored
\* status is SUCCEEDED exactly when the exit code is 0 and FAILED exactly
\* when it is not; no job record, and no answer of status(), holds any
\* other status.
C2_Status ==
    /\ \A i \in 1..Len(_jobs) :
          _jobs[i][2].status \in {"SUCCEEDED", "FAILED"}
    /\ RunCompleted =>
          LET st == StoredEntry(ret.val.job_id).status
              code == Last(calls).returncode
          IN  /\ Last(calls).cmd = "python"
              /\ (st = "SUCCEEDED") <=> (code = 0)
              /\ (st = "FAILED") <=> (code # 0)
    /\ (call.op = "status" /\ ret.exc = "") =>
          ret.val \in {"SUCCEEDED", "FAILED"}

C2_Witness ==
    /\ RunCompleted
    /\ Last(calls).returncode = -9
    /\ StoredEntry(ret.val.job_id).status = "FAILED"

\* The reading of the marker the claim gives: the first "Saved Result:"
\* that some ":End Saved Result" follows, and the tokens up to the nearest
\* such end, line breaks included.
ClaimedMarker(output) ==
    {i \in 1..Len(output) :
        /\ output[i] = SavedResult
        /\ \E j \in (i + 1)..Len(output) : output[j] = EndSavedResult}

Min(S) == CHOOSE x \in S : \A y \in S : x <= y

ClaimedResult(output) ==
    IF ClaimedMarker(output) = {} THEN <<>>
    ELSE LET i == Min(ClaimedMarker(output))
             j == Min({k \in (i + 1)..Len(output) :
                          output[k] = EndSavedResult})
         IN  SubSeq(output, i + 1, j - 1)

Occurs(output, i, n) ==
    /\ n >= 1
    /\ i + n + 3 <= Len(output)
    /\ output[i] = NL
    /\ output[i + 1] = SavedResult
    /\ \A k \in (i + 2)..(i + n + 1) : output[k] # NL
    /\ output[i + n + 2] = EndSavedResult
    /\ output[i + n + 3] = NL

Returned == [i \in 1..Len(runLog) |-> runLog[i].job]

\* C4: get_jobs(), whatever keyword arguments it is given, returns exactly
\* the handles the completed run() calls returned, each once and in the
\* order of creation; the identifiers of distinct runs differ, so no run
\* overwrote the record of an earlier one.
C4_GetJobs ==
    /\ \A i, j \in 1..Len(Returned) :
          i # j => Returned[i].job_id # Returned[j].job_id
    /\ Len(_jobs) = Len(runLog)
    /\ JobsList = Returned
    /\ call.op = "get_jobs" => ret = Returns(Returned)

C4_Witness ==
    /\ call.op = "get_jobs"
    /\ call.kwargs # {}
    /\ Len(ret.val) = 2
    /\ ret.val[1].job_id = "u3"
    /\ ret.val[2].job_id = "u1"

\* The indices of the registered records with a title.
Matches(title) == {i \in 1..Len(_patterns) : _patterns[i].title = title}

Max(S) == CHOOSE x \in S : \A y \in S : y <= x

\* The dependency list a record was registered with.
DepLists == {OrElse(program.dependencies, <<>>) : program \in Programs}
DepsOf(pattern) ==
    CHOOSE l \in DepLists : JsonDumps(l) = pattern.dependencies

\* C5: run() of a registered function with dependencies d1..dn installs
\* them one call each, in the listed order, all before the subprocess is
\* spawned; when the installation of di fails the error reaches the caller,
\* nothing after di is installed, no subprocess is spawned and the job
\* table is as it was.
C5_Install ==
    (call.op = "run" /\ Matches(call.program.title) # {}) =>
        LET d == DepsOf(_patterns[Max(Matches(call.program.title))])
            n == Len(calls)
        IN  /\ \A i \in 1..n :
                  \/ /\ calls[i].cmd = "pip install"
                     /\ i <= Len(d)
                     /\ calls[i].target = <<d[i]>>
                  \/ /\ calls[i].cmd = "python"
                     /\ i = Len(d) + 1
                     /\ i = n
            /\ \A i \in 1..n :
                  calls[i].returncode # 0 /\ calls[i].cmd = "pip install"
                  => /\ i = n
                     /\ ret.exc = "CalledProcessError"
                     /\ _jobs = pre.jobs
            /\ ret.exc = "" => n = Len(d) + 1 /\ calls[n].cmd = "python"
            /\ ret.exc # "" =>
                  /\ n >= 1
                  /\ calls[n].cmd = "pip install"
                  /\ calls[n].returncode # 0
                  /\ _jobs = pre.jobs

C5_Witness ==
    /\ call.op = "run"
    /\ ret.exc = "CalledProcessError"
    /\ Len(calls) = 2
    /\ calls[1].target = <<"p">>
    /\ calls[2].target = <<"q">>
    /\ _jobs # <<>>

QueriedRuns == {i \in 1..Len(runLog) : runLog[i].job.job_id = call.job_id}

\* C6: get_job(job_id) raises KeyError and changes nothing when no run()
\* of this client returned job_id; otherwise it returns the handle that
\* run() returned, and status, result and logs of the id are the values
\* that run recorded.
C6_GetJob ==
    call.op = "get_job" =>
        /\ Snapshot = pre
        /\ IF QueriedRuns = {} THEN ret = Raises("KeyError")
           ELSE \E i \in QueriedRuns :
                  /\ ret = Returns(runLog[i].job)
                  /\ JobField(call.job_id, "status")
                        = Returns(runLog[i].status)
                  /\ JobField(call.job_id, "result")
                        = Returns(runLog[i].result)
                  /\ JobField(call.job_id, "logs")
                        = Returns(runLog[i].logs)

C6_Witness ==
    /\ call.op = "get_job"
    /\ ret.exc = ""
    /\ Len(runLog) = 2
    /\ runLog[2].job = ret.val
    /\ runLog[1].status # runLog[2].status
    /\ runLog[1].logs # runLog[2].logs

ReservedKeys == {"OT_PROGRAM_NAME", "PATH", "ENV_JOB_ARGUMENTS"}

\* C7: when several registered functions share the title given to run(),
\* as a string or as the title of a function object, the one registered
\* last is executed: its dependencies are the ones installed, and its
\* working directory, entrypoint and environment variables are the ones
\* of the subprocess.
C7_LastWins ==
    (call.op = "run" /\ Matches(call.program.title) # {}) =>
        LET saved == _patterns[Max(Matches(call.program.title))]
        IN  /\ \A i \in 1..Len(calls) :
                  calls[i].cmd = "pip install" =>
                      /\ i <= Len(DepsOf(saved))
                      /\ calls[i].target = <<DepsOf(saved)[i]>>
            /\ ret.exc = "" =>
                  /\ Len(calls) = Len(DepsOf(saved)) + 1
                  /\ Last(calls).target
                        = saved.working_dir \o saved.entrypoint
                  /\ <<"OT_PROGRAM_NAME", <<saved.title>>>>
                        \in Last(calls).env
                  /\ \A kv \in OrElse(saved.env_vars, {}) :
                        kv[1] \notin ReservedKeys
                        => kv \in Last(calls).env
                  /\ \A kv \in Last(calls).env :
                        kv[1] \notin ReservedKeys
                        => kv \in OrElse(saved.env_vars, {})

C7_Witness ==
    /\ RunCompleted
    /\ call.program.isFunction
    /\ Len(_patterns) = 2
    /\ _patterns[1].title = _patterns[2].title
    /\ _patterns[1] # _patterns[2]
    /\ Last(calls).target = <<"d1", "/", "main.py">>

Handle(i) == QiskitFunction(_patterns[i].title, _patterns[i].provider,
                            _patterns[i])

\* C8 as stated: get_program(title) returns the handle of the first
\* registered function with the title, None when there is none, whatever
\* the provider argument.
C8_Original ==
    call.op = "get_program" =>
        /\ ret.exc = ""
        /\ IF Matches(call.title) = {} THEN ~ret.val.some
           ELSE /\ ret.val.some
                /\ ret.val.v = Handle(Min(Matches(call.title)))

\* C8 amended: get_program(title) returns the handle of the function
\* registered last with the title (the most recent match in registration
\* order), None when no registered function has the title; the provider
\* argument does not affect the result.
C8_Amended ==
    call.op = "get_program" =>
        /\ ret.exc = ""
        /\ IF Matches(call.title) = {} THEN ~ret.val.some
           ELSE /\ ret.val.some
                /\ ret.val.v = Handle(Max(Matches(call.title)))

C8_Witness ==
    /\ call.op = "get_program"
    /\ call.provider = NoneStr
    /\ Len(_patterns) = 2
    /\ _patterns[1].title = call.title
    /\ _patterns[2].title = call.title
    /\ _patterns[1] # _patterns[2]
    /\ ret.val.some
    /\ ret.val.v.provider = Some("ibm")

\* C9: run() with a title no registered function has raises before any
\* dependency is installed and before any subprocess is spawned, and
\* leaves the registry and the job table as they were, also when the
\* registry is empty.
C9_NoMatch ==
    (call.op = "run" /\ Matches(call.program.title) = {}) =>
        /\ ret.exc = "UnboundLocalError"
        /\ calls = <<>>
        /\ _patterns = pre.patterns
        /\ _jobs = pre.jobs

C9_Witness ==
    /\ call.op = "run"
    /\ ret.exc = "UnboundLocalError"
    /\ Matches(call.program.title) = {}
    /\ _patterns # <<>>
    /\ _jobs # <<>>

\* C10: a job record, once created, keeps its status, logs, result and
\* handle and is never removed, whatever operation follows, so status,
\* result and logs of its id answer what they answered right after its
\* run; stop(job_id) changes no state and returns the 'already stopped'
\* message, also for an id no job has.
C10_Frozen ==
    /\ \A i \in 1..Len(pre.jobs) :
          /\ i <= Len(_jobs)
          /\ _jobs[i] = pre.jobs[i]
    /\ \A i \in 1..Len(runLog) :
          LET id == runLog[i].job.job_id
          IN  /\ JobField(id, "status") = Returns(runLog[i].status)
              /\ JobField(id, "result") = Returns(runLog[i].result)
              /\ JobField(id, "logs") = Returns(runLog[i].logs)
              /\ JobField(id, "job") = Returns(runLog[i].job)
    /\ call.op = "stop" =>
          /\ ret = Returns(<<"job:", call.job_id, " has already stopped">>)
          /\ Snapshot = pre

C10_Witness ==
    /\ call.op = "stop"
    /\ call.job_id \notin DictKeys(_jobs)
    /\ Len(_jobs) = 2
    /\ _jobs[1][2].status # _jobs[2][2].status
====
